---- MODULE Spec2Model ----
(* Comment stripper of BankingSystemTwo: simplify_better.py and             *)
(* simplify_comments.py, two variants of one single-pass line filter.      *)
(* A line is a sequence of one-character strings, without its terminator:  *)
(* the terminator is whitespace that strip() removes and that none of the  *)
(* patterns can match, so it is carried through unchanged.                 *)
EXTENDS Integers, Sequences, FiniteSets, TLC

(* ---------------------------------------------------------------- bounds *)
MaxLines == 4
MaxPatLines == 2
MaxArgs == 3

(* ------------------------------------------------------- string helpers *)
Variants == {"better", "comments"}

IsSpace(c) == c \in {" ", "\t"}

RECURSIVE LStrip(_)
LStrip(s) == IF s # <<>> /\ IsSpace(Head(s)) THEN LStrip(Tail(s)) ELSE s

RECURSIVE RStrip(_)
RStrip(s) ==
  IF s # <<>> /\ IsSpace(s[Len(s)]) THEN RStrip(SubSeq(s, 1, Len(s) - 1)) ELSE s

Strip(s) == RStrip(LStrip(s))

StartsWithAt(s, p, i) ==
  /\ i + Len(p) - 1 <= Len(s)
  /\ \A k \in 1..Len(p) : s[i + k - 1] = p[k]

StartsWith(s, p) == StartsWithAt(s, p, 1)

Contains(s, p) == \E i \in 1..Len(s) : StartsWithAt(s, p, i)

RECURSIVE SkipSpace(_, _)
SkipSpace(s, i) ==
  IF i <= Len(s) /\ IsSpace(s[i]) THEN SkipSpace(s, i + 1) ELSE i

AllIn(s, a, b, chars) == \A k \in a..b : s[k] \in chars

(* ------------------------------------------------------- pattern tables *)
DocOpen == <<"/", "*", "*">>
BlockClose == <<"*", "/">>
Slashes == <<"/", "/">>
MinRun == 3

NoiseMarkers ==
  << <<"M", "e", "t", "h", "o", "d", " ", "c", "a", "l", "l", "s", ":">>,
     <<"C", "a", "l", "l", "s">>,
     <<"N", "o", "t", "e", ":">>,
     <<"W", "h", "y", ":">>,
     <<"P", "r", "o", "b", "l", "e", "m", ":">>,
     <<"N", "E", "W", " ", "A", "P", "P", "R", "O", "A", "C", "H", ":">>,
     <<"O", "L", "D", " ", "A", "P", "P", "R", "O", "A", "C", "H", ":">>,
     <<"F", "I", "X", "E", "D", ":">>,
     <<"U", "s", "e", "s">>,
     <<"T", "h", "i", "s", " ", "d", "e", "m", "o", "n", "s", "t", "r", "a", "t", "e", "s">>,
     <<"B", "e", "n", "e", "f", "i", "t", "s", ":">>,
     <<"A", "l", "g", "o", "r", "i", "t", "h", "m", ":">>,
     <<"T", "i", "m", "e", " ", "C", "o", "m", "p", "l", "e", "x", "i", "t", "y", ":">>,
     <<"S", "p", "a", "c", "e", " ", "C", "o", "m", "p", "l", "e", "x", "i", "t", "y", ":">>,
     <<"P", "a", "t", "t", "e", "r", "n", ":">>,
     <<"D", "e", "m", "o", "n", "s", "t", "r", "a", "t", "e", "s", ":">> >>

InlineMarkers ==
  << <<"F", "o", "r", "m", "a", "t", ":">>,
     <<"E", "x", "t", "r", "a", "c", "t">>,
     <<"T", "r", "a", "c", "k">>,
     <<"R", "e", "c", "o", "r", "d">>,
     <<"M", "a", "r", "k">>,
     <<"A", "d", "d", " ", "t", "o">>,
     <<"S", "h", "i", "f", "t">>,
     <<"C", "o", "n", "t", "i", "n", "u", "e">>,
     <<"F", "o", "u", "n", "d">>,
     <<"I", "n", "s", "e", "r", "t">>,
     <<"S", "a", "f", "e">>,
     <<"R", "e", "t", "u", "r", "n">>,
     <<"G", "e", "t">>,
     <<"S", "e", "t">>,
     <<"C", "r", "e", "a", "t", "e">>,
     <<"U", "p", "d", "a", "t", "e">>,
     <<"D", "e", "l", "e", "t", "e">>,
     <<"F", "i", "n", "d">>,
     <<"C", "h", "e", "c", "k">>,
     <<"D", "i", "s", "p", "l", "a", "y">>,
     <<"P", "r", "o", "c", "e", "s", "s">>,
     <<"H", "a", "n", "d", "l", "e">>,
     <<"S", "h", "o", "w">>,
     <<"P", "r", "i", "n", "t">> >>


(* --------------------------------------------------- the line predicates *)
IsOpenerUnclosed(stripped) ==
  StartsWith(stripped, DocOpen) /\ ~Contains(stripped, BlockClose)

IsOpenerExact(stripped) == stripped = DocOpen

\* stripped.startswith('/**')
IsOpener(stripped) == StartsWith(stripped, DocOpen)

HasCloserAtEnd(stripped) ==
  /\ Len(stripped) >= Len(BlockClose)
  /\ StartsWithAt(stripped, BlockClose, Len(stripped) - Len(BlockClose) + 1)

\* '*/' in stripped
HasCloser(stripped) == Contains(stripped, BlockClose)

\* stripped == ''
IsBlank(stripped) == stripped = <<>>

DividerBetterNoSpace(stripped) ==
  LET a0 == SkipSpace(stripped, 1)
      a  == a0 + 2
      n  == Len(stripped)
  IN  /\ StartsWithAt(stripped, Slashes, a0)
      /\ a + MinRun - 1 <= n
      /\ AllIn(stripped, a, a + MinRun - 1, {"="})
      /\ \E p \in (a + MinRun)..n : \E e \in (p + MinRun - 1)..n :
            /\ AllIn(stripped, p, e, {"="})
            /\ AllIn(stripped, e + 1, n, {" ", "\t"})

\* re.match(r'^\s*//\s*={3,}.*={3,}\s*$', stripped): each \s* is followed by
\* a non-space literal, so it takes the whole run of spaces; the second run
\* of '=' may start anywhere after the first three and must reach the end of
\* the line but for trailing spaces.
DividerBetter(stripped) ==
  LET a0 == SkipSpace(stripped, 1)
      a  == SkipSpace(stripped, a0 + 2)
      n  == Len(stripped)
  IN  /\ StartsWithAt(stripped, Slashes, a0)
      /\ a + MinRun - 1 <= n
      /\ AllIn(stripped, a, a + MinRun - 1, {"="})
      /\ \E p \in (a + MinRun)..n : \E e \in (p + MinRun - 1)..n :
            /\ AllIn(stripped, p, e, {"="})
            /\ AllIn(stripped, e + 1, n, {" ", "\t"})

DividerCommentsTwoRun(stripped) == DividerBetter(stripped)

DividerCommentsNoSpace(stripped) ==
  LET a0 == SkipSpace(stripped, 1)
      a  == a0 + 2
  IN  /\ StartsWithAt(stripped, Slashes, a0)
      /\ a + MinRun - 1 <= Len(stripped)
      /\ AllIn(stripped, a, a + MinRun - 1, {"="})

\* re.match(r'^\s*//\s*={3,}', stripped)
DividerComments(stripped) ==
  LET a0 == SkipSpace(stripped, 1)
      a  == SkipSpace(stripped, a0 + 2)
  IN  /\ StartsWithAt(stripped, Slashes, a0)
      /\ a + MinRun - 1 <= Len(stripped)
      /\ AllIn(stripped, a, a + MinRun - 1, {"="})

\* re.match(r'^\s*//(Method calls:|Calls|...)', stripped): no \s* after '//'
NoiseMatch(stripped) ==
  LET a0 == SkipSpace(stripped, 1)
  IN  /\ StartsWithAt(stripped, Slashes, a0)
      /\ \E m \in 1..Len(NoiseMarkers) :
            StartsWithAt(stripped, NoiseMarkers[m], a0 + 2)

\* One attempt of r'\s*//\s*(Format:|Extract|...)' at position p: the index
\* after the match, or 0 when the pattern does not match there. The
\* alternation takes the first marker, in table order, that fits.
InlineMatchEnd(s, p) ==
  LET w  == SkipSpace(s, p)
      b  == SkipSpace(s, w + 2)
      ms == {m \in 1..Len(InlineMarkers) : StartsWithAt(s, InlineMarkers[m], b)}
  IN  IF StartsWithAt(s, Slashes, w) /\ ms # {}
      THEN b + Len(InlineMarkers[CHOOSE m \in ms : \A k \in ms : m <= k])
      ELSE 0

\* re.sub(pattern, '', line): leftmost non-overlapping matches are deleted,
\* every other character is copied.
RECURSIVE InlineSubFrom(_, _)
InlineSubFrom(s, p) ==
  IF p > Len(s) THEN <<>>
  ELSE LET e == InlineMatchEnd(s, p)
       IN  IF e > 0 THEN InlineSubFrom(s, e)
           ELSE <<s[p]>> \o InlineSubFrom(s, p + 1)

InlineSub(line) == InlineSubFrom(line, 1)

EmitFirst(res, x) == <<x>> \o res

EmitStripped(res, x) == Append(res, Strip(x))

\* result.append(line)
Emit(res, x) == Append(res, x)

SkipAfterBlankKept == TRUE

\* skip_next_blank = False, in the branch that drops the blank line
SkipAfterBlank == FALSE

SkipAfterLineKept(sk) == sk

\* skip_next_blank = False, reached by every line that no earlier branch took
SkipAfterLine(sk) == FALSE

\* skip_next_blank = True, in the branch that drops the closer line
SkipAfterClose == TRUE

(* ------------------------------------------------ one iteration of a loop *)
\* The loop body of simplify_better.py applied to one line in scan state st:
\* the new flags, the rule that took the line and the lines it appends.
BetterStep(st, line) ==
  LET stripped == Strip(line)
      drop(jd, bc, sk, r) ==
        [in_javadoc |-> jd, in_block_comment |-> bc, skip_next_blank |-> sk,
         rule |-> r, out |-> <<>>]
  IN  IF IsOpener(stripped)
      THEN drop(TRUE, st.in_block_comment, st.skip_next_blank, "open")
      ELSE IF (st.in_javadoc \/ st.in_block_comment) /\ HasCloser(stripped)
      THEN drop(FALSE, FALSE, SkipAfterClose, "close")
      ELSE IF st.in_javadoc \/ st.in_block_comment
      THEN drop(st.in_javadoc, st.in_block_comment, st.skip_next_blank, "inside")
      ELSE IF st.skip_next_blank /\ IsBlank(stripped)
      THEN drop(st.in_javadoc, st.in_block_comment, SkipAfterBlank, "blank")
      ELSE IF DividerBetter(stripped)
      THEN drop(st.in_javadoc, st.in_block_comment,
                SkipAfterLine(st.skip_next_blank), "divider")
      ELSE [in_javadoc |-> st.in_javadoc,
            in_block_comment |-> st.in_block_comment,
            skip_next_blank |-> SkipAfterLine(st.skip_next_blank),
            rule |-> "keep", out |-> <<line>>]

\* The loop body of simplify_comments.py; it has no in_block_comment.
CommentsStep(st, line) ==
  LET stripped == Strip(line)
      drop(jd, sk, r) ==
        [in_javadoc |-> jd, in_block_comment |-> st.in_block_comment,
         skip_next_blank |-> sk, rule |-> r, out |-> <<>>]
  IN  IF IsOpener(stripped)
      THEN drop(TRUE, st.skip_next_blank, "open")
      ELSE IF st.in_javadoc /\ HasCloser(stripped)
      THEN drop(FALSE, SkipAfterClose, "close")
      ELSE IF st.in_javadoc
      THEN drop(st.in_javadoc, st.skip_next_blank, "inside")
      ELSE IF st.skip_next_blank /\ IsBlank(stripped)
      THEN drop(st.in_javadoc, SkipAfterBlank, "blank")
      ELSE IF DividerComments(stripped)
      THEN drop(st.in_javadoc, SkipAfterLine(st.skip_next_blank), "divider")
      ELSE IF NoiseMatch(stripped)
      THEN drop(st.in_javadoc, SkipAfterLine(st.skip_next_blank), "noise")
      ELSE [in_javadoc |-> st.in_javadoc,
            in_block_comment |-> st.in_block_comment,
            skip_next_blank |-> SkipAfterLine(st.skip_next_blank),
            rule |-> "keep",
            out |-> <<InlineSub(line)>>]

StepOf(v, st, line) ==
  IF v = "better" THEN BetterStep(st, line) ELSE CommentsStep(st, line)

\* in_javadoc = False; in_block_comment = False; skip_next_blank = False
FreshScan ==
  [in_javadoc |-> FALSE, in_block_comment |-> FALSE, skip_next_blank |-> FALSE]

\* The whole pass as a function of the input lines: the loop run from the
\* fresh scan state over ls[k..], appending to res.
RECURSIVE ScanFrom(_, _, _, _, _)
ScanFrom(v, st, ls, k, res) ==
  IF k > Len(ls) THEN res
  ELSE LET r == StepOf(v, st, ls[k])
       IN  ScanFrom(v, [in_javadoc |-> r.in_javadoc,
                        in_block_comment |-> r.in_block_comment,
                        skip_next_blank |-> r.skip_next_blank],
                    ls, k + 1,
                    IF r.out = <<>> THEN res ELSE Emit(res, r.out[1]))

\* The loop run from the fresh scan state over the first k lines of ls: the
\* scan state and the result list it has reached.
RECURSIVE RunTo(_, _, _)
RunTo(v, ls, k) ==
  IF k = 0 THEN [st |-> FreshScan, res |-> <<>>]
  ELSE LET prev == RunTo(v, ls, k - 1)
           r    == StepOf(v, prev.st, ls[k])
       IN  [st  |-> [in_javadoc |-> r.in_javadoc,
                     in_block_comment |-> r.in_block_comment,
                     skip_next_blank |-> r.skip_next_blank],
            res |-> IF r.out = <<>> THEN prev.res ELSE Emit(prev.res, r.out[1])]

StripLines(v, ls) == ScanFrom(v, FreshScan, ls, 1, <<>>)

(* ------------------------------------------------------------ the inputs *)
LnOpen == <<"/", "*", "*">>  \* '/**'

LnCode == <<"c", "o", "d", "e">>  \* 'code'

LnClose == <<" ", "*", "/">>  \* ' */'

LnEmpty == <<>>  \* ''

LnSpace == <<" ">>  \* ' '

LnOpenClose == <<"/", "*", "*", " ", "x", " ", "*", "/">>  \* '/** x */'

LnPlainOpen == <<"/", "*", " ", "c">>  \* '/* c'

LnFoo == <<"f", "o", "o">>  \* 'foo'

LnDivider == <<"/", "/", " ", "=", "=", "=", "=", "=", " ", "S", "E", "C", "T", "I", "O", "N", " ", "=", "=", "=", "=", "=">>  \* '// ===== SECTION ====='

LnNotDivider == <<"/", "/", " ", "=", " ", "n", "o", "t", " ", "a", " ", "d", "i", "v", "i", "d", "e", "r">>  \* '// = not a divider'

LnDividerTight == <<"/", "/", " ", "=", "=", "=", " ", "S", " ", "=", "=", "=">>  \* '// === S ==='

LnOneRun == <<"/", "/", " ", "=", "=", "=", "=", "=">>  \* '// ====='

LnRunLabel == <<"/", "/", " ", "=", "=", "=", " ", "l", "a", "b", "e", "l">>  \* '// === label'

LnSetValue == <<"x", " ", "=", " ", "5", ";", " ", "/", "/", " ", "S", "e", "t", " ", "t", "h", "e", " ", "v", "a", "l", "u", "e">>  \* 'x = 5; // Set the value'

LnImportantKeep == <<"x", " ", "=", " ", "5", ";", " ", "/", "/", " ", "I", "m", "p", "o", "r", "t", "a", "n", "t", ":", " ", "k", "e", "e", "p">>  \* 'x = 5; // Important: keep'

LnNoteSpace == <<"/", "/", " ", "N", "o", "t", "e", ":", " ", "t", "h", "i", "s", " ", "e", "x", "p", "l", "a", "i", "n", "s", " ", "t", "h", "i", "n", "g", "s">>  \* '// Note: this explains things'

LnNoteTight == <<"/", "/", "N", "o", "t", "e", ":", " ", "x">>  \* '//Note: x'

LnImportantKeepMe == <<"/", "/", " ", "I", "m", "p", "o", "r", "t", "a", "n", "t", ":", " ", "k", "e", "e", "p", " ", "m", "e">>  \* '// Important: keep me'

LnJunction == <<"/", "/", "/", " ", "S", "e", "t", "/", " ", "G", "e", "t">>  \* '/// Set/ Get'

LnCloseCode == <<"*", "/", " ", "c", "o", "d", "e">>  \* '*/ code'

LnSetComment == <<"/", "/", " ", "S", "e", "t", " ", "x">>  \* '// Set x'

LnIndented == <<" ", " ", "x", " ", "=", " ", "1", ";">>  \* '  x = 1;'


SeqsUpTo(S, n) == UNION {[1..k -> S] : k \in 0..n}

\* Files of doc-comment blocks, blank lines and code.
BlockLines ==
  {LnOpen, LnFoo, LnCode, LnClose, LnEmpty, LnSpace, LnOpenClose}
BlockInputs == SeqsUpTo(BlockLines, MaxLines)

\* Files of '//' comment lines and code with trailing comments.
PatternLines ==
  {LnDivider, LnNotDivider, LnDividerTight, LnOneRun, LnRunLabel,
   LnSetValue, LnImportantKeep, LnNoteSpace, LnNoteTight, LnImportantKeepMe,
   LnJunction, LnSetComment, LnPlainOpen, LnOpen, LnClose, LnEmpty, LnCode}
PatternInputs == SeqsUpTo(PatternLines, MaxPatLines)

\* Files that mix doc-comment blocks with divider, noise and inline comments.
MixedLines ==
  {LnOpen, LnClose, LnEmpty, LnIndented, LnSetValue, LnNoteTight, LnDivider}
MixedInputs == SeqsUpTo(MixedLines, MaxLines)

\* Files of blocks whose closer carries code, dividers with one and two runs.
EdgeLines == {LnOpen, LnCloseCode, LnEmpty, LnCode, LnDivider, LnOneRun}
EdgeInputs == SeqsUpTo(EdgeLines, MaxLines)

(* ------------------------------------------------------------- the state *)
VARIABLES
  variant,            \* which script runs
  nargs,              \* positional arguments: len(sys.argv) - 1
  fs_in,              \* the lines of the input file
  pc,                 \* position of the process
  lines,              \* lines = f.readlines()
  i,                  \* lines the loop has consumed
  in_javadoc, in_block_comment, skip_next_blank,
  result,             \* result
  kept,               \* for each line of result, the index i it came from
  fired,              \* for each consumed line, the branch that took it
  fs_out,             \* the lines of the output file
  out_written,        \* the output file was opened for writing
  stdout,             \* what was printed
  exit_code,          \* -1 while the process runs
  ops,                \* files opened, in order
  calls               \* calls of simplify_java_file

vars == <<variant, nargs, fs_in, pc, lines, i, in_javadoc, in_block_comment,
          skip_next_blank, result, kept, fired, fs_out, out_written, stdout,
          exit_code, ops, calls>>

scan == <<lines, i, in_javadoc, in_block_comment, skip_next_blank, result,
          kept, fired>>
files == <<fs_out, out_written, ops>>

InitOver(inputs) ==
  /\ variant \in Variants
  /\ nargs \in 0..MaxArgs
  /\ fs_in \in inputs
  /\ pc = "main"
  /\ lines = <<>>
  /\ i = 0
  /\ in_javadoc = FALSE
  /\ in_block_comment = FALSE
  /\ skip_next_blank = FALSE
  /\ result = <<>>
  /\ kept = <<>>
  /\ fired = <<>>
  /\ fs_out = <<>>
  /\ out_written = FALSE
  /\ stdout = <<>>
  /\ exit_code = -1
  /\ ops = <<>>
  /\ calls = 0

Init == InitOver(BlockInputs)
InitPattern == InitOver(PatternInputs)
InitMixed == InitOver(MixedInputs)
InitEdge == InitOver(EdgeInputs)

BadArgCountTooFew(n) == n + 1 < 3

\* len(sys.argv) != 3
BadArgCount(n) == n + 1 # 3

\* if __name__ == "__main__": usage and exit 1, or the call of the filter
Main ==
  /\ pc = "main"
  /\ IF BadArgCount(nargs)
     THEN /\ stdout' = Append(stdout, "usage")
          /\ exit_code' = 1
          /\ pc' = "exited"
          /\ calls' = calls
     ELSE /\ calls' = calls + 1
          /\ pc' = "read"
          /\ UNCHANGED <<stdout, exit_code>>
  /\ UNCHANGED <<variant, nargs, fs_in, scan, files>>

\* with open(input_file, 'r') as f: lines = f.readlines(); then the locals
ReadInput ==
  /\ pc = "read"
  /\ ops' = Append(ops, "open_r")
  /\ lines' = fs_in
  /\ result' = <<>>
  /\ in_javadoc' = FALSE
  /\ in_block_comment' = FALSE
  /\ skip_next_blank' = FALSE
  /\ i' = 0
  /\ pc' = "loop"
  /\ UNCHANGED <<variant, nargs, fs_in, kept, fired, fs_out, out_written,
                 stdout, exit_code, calls>>

\* open(input_file) raises: the exception is not caught
ReadInputFails ==
  /\ pc = "read"
  /\ ops' = Append(ops, "open_r_failed")
  /\ exit_code' = 1
  /\ pc' = "crashed"
  /\ UNCHANGED <<variant, nargs, fs_in, scan, fs_out, out_written, stdout,
                 calls>>

\* one iteration of `for i, line in enumerate(lines)`
LoopStep(v) ==
  /\ pc = "loop"
  /\ variant = v
  /\ i < Len(lines)
  /\ LET r == StepOf(v, [in_javadoc |-> in_javadoc,
                         in_block_comment |-> in_block_comment,
                         skip_next_blank |-> skip_next_blank], lines[i + 1])
     IN  /\ in_javadoc' = r.in_javadoc
         /\ in_block_comment' = r.in_block_comment
         /\ skip_next_blank' = r.skip_next_blank
         /\ fired' = Append(fired, r.rule)
         /\ IF r.out = <<>>
            THEN UNCHANGED <<result, kept>>
            ELSE /\ result' = Emit(result, r.out[1])
                 /\ kept' = Append(kept, i + 1)
  /\ i' = i + 1
  /\ UNCHANGED <<variant, nargs, fs_in, pc, lines, files, stdout, exit_code,
                 calls>>

BetterLoop == LoopStep("better")
CommentsLoop == LoopStep("comments")

LoopExhaustedEarly == i >= 0

\* `for i, line in enumerate(lines)` has no line left
LoopExhausted == i = Len(lines)

\* the loop is exhausted; with open(output_file, 'w') as f: f.writelines(result)
WriteOutput ==
  /\ pc = "loop"
  /\ LoopExhausted
  /\ ops' = Append(ops, "open_w")
  /\ out_written' = TRUE
  /\ fs_out' = result
  /\ pc' = "print"
  /\ UNCHANGED <<variant, nargs, fs_in, scan, stdout, exit_code, calls>>

\* open(output_file, 'w') raises: the exception is not caught
WriteOutputFails ==
  /\ pc = "loop"
  /\ LoopExhausted
  /\ ops' = Append(ops, "open_w_failed")
  /\ exit_code' = 1
  /\ pc' = "crashed"
  /\ UNCHANGED <<variant, nargs, fs_in, scan, fs_out, out_written, stdout,
                 calls>>

\* print(f"Simplified {input_file} -> {output_file}") and the normal exit
PrintDone ==
  /\ pc = "print"
  /\ stdout' = Append(stdout, "simplified")
  /\ exit_code' = 0
  /\ pc' = "done"
  /\ UNCHANGED <<variant, nargs, fs_in, scan, files, calls>>

Next ==
  \/ Main
  \/ ReadInput
  \/ ReadInputFails
  \/ BetterLoop
  \/ CommentsLoop
  \/ WriteOutput
  \/ WriteOutputFails
  \/ PrintDone

Spec == Init /\ [][Next]_vars
SpecPattern == InitPattern /\ [][Next]_vars
SpecMixed == InitMixed /\ [][Next]_vars
SpecEdge == InitEdge /\ [][Next]_vars

(* ------------------------------------------- the vocabulary of the claims *)
Range(f) == {f[k] : k \in 1..Len(f)}

\* A doc-comment opener: the trimmed content starts with /**
DocOpener(l) == StartsWith(Strip(l), DocOpen)

\* A line containing */
CloserLine(l) == Contains(l, BlockClose)

BlankLine(l) == \A k \in 1..Len(l) : l[k] \in {" ", "\t"}

\* An ordinary code line: not blank, no doc-comment opener, no // comment
OrdinaryCode(l) == ~BlankLine(l) /\ ~DocOpener(l) /\ ~Contains(l, Slashes)

\* Line j was emitted, and emitted unchanged
Emitted(j) == j \in Range(kept)
EmittedUnchanged(j) ==
  \E k \in 1..Len(kept) : kept[k] = j /\ k <= Len(result) /\ result[k] = lines[j]

\* j is the first line after a that contains */
NextCloser(a, j) ==
  /\ a < j
  /\ CloserLine(lines[j])
  /\ \A m \in (a + 1)..(j - 1) : ~CloserLine(lines[m])

\* The scanner is inside a doc-comment when it reaches line j: some opener
\* before j has no closing line (a line with */ that is not itself an
\* opener) between it and j.
InsideAt(j) ==
  \E a \in 1..(j - 1) :
    /\ DocOpener(lines[a])
    /\ \A m \in (a + 1)..(j - 1) : ~(CloserLine(lines[m]) /\ ~DocOpener(lines[m]))

\* Line j closes a doc-comment
ClosesAt(j) == InsideAt(j) /\ CloserLine(lines[j]) /\ ~DocOpener(lines[j])

BlankRun(j, m) == \A k \in (j + 1)..m : BlankLine(lines[k])

\* After a closer, the first blank line of a run is dropped, the others kept
C2_FirstBlankOnly ==
  \A j \in 1..i : \A m \in (j + 1)..i :
    (ClosesAt(j) /\ BlankRun(j, m)) =>
      IF m = j + 1 THEN ~Emitted(m) ELSE EmittedUnchanged(m)

\* A blank line dropped by the blank rule after line j+1 has a closer of its
\* own between j+1 and itself
C2_NoLaterDrop ==
  \A j \in 1..i : \A m \in (j + 2)..i :
    (ClosesAt(j) /\ ~BlankLine(lines[j + 1]) /\ ~InsideAt(m)
       /\ BlankLine(lines[m]) /\ ~Emitted(m))
      => \E c \in (j + 2)..(m - 1) : ClosesAt(c)

\* C2 as stated: after a closer the first of k >= 1 blank lines is dropped and
\* the other k-1 are emitted; when the line after the closer is non-blank the
\* flag is cleared and no later blank line is dropped on account of the closer.
C2_Original ==
  /\ C2_FirstBlankOnly
  /\ C2_NoLaterDrop
  /\ \A j \in 1..i :
       (ClosesAt(j) /\ i = j + 1 /\ ~BlankLine(lines[j + 1]))
         => ~skip_next_blank

\* C2 amended: as C2, but the flag is cleared by the non-blank line after the
\* closer only when that line is not itself a doc-comment opener (an opener
\* is dropped before the flag is touched).
C2_Amended ==
  /\ C2_FirstBlankOnly
  /\ C2_NoLaterDrop
  /\ \A j \in 1..i :
       (ClosesAt(j) /\ i = j + 1 /\ ~BlankLine(lines[j + 1])
          /\ ~DocOpener(lines[j + 1]))
         => ~skip_next_blank

\* A closer followed by two blank lines: the second one is the output
C2_Witness ==
  /\ pc = "done"
  /\ lines = <<LnOpen, LnClose, LnEmpty, LnSpace>>
  /\ fs_out = <<LnSpace>>

(* ------------------------------------------------------------------- C3 *)
\* res is a subsequence of ls
RECURSIVE IsSubseq(_, _)
IsSubseq(res, ls) ==
  IF res = <<>> THEN TRUE
  ELSE IF ls = <<>> THEN FALSE
  ELSE IF Head(res) = Head(ls) THEN IsSubseq(Tail(res), Tail(ls))
  ELSE IsSubseq(res, Tail(ls))

\* C3: the input indices of the emitted lines are strictly increasing (so no
\* line is emitted twice), one per output line; in simplify_better.py every
\* output line is identical to the input line it came from and the output is
\* a subsequence of the input.
C3_OrderPreserved ==
  /\ Len(kept) = Len(result)
  /\ \A k \in 1..Len(kept) : kept[k] \in 1..i
  /\ \A k \in 1..(Len(kept) - 1) : kept[k] < kept[k + 1]
  /\ variant = "better" =>
       /\ \A k \in 1..Len(result) : result[k] = lines[kept[k]]
       /\ IsSubseq(result, lines)

\* A finished pass that kept two different lines and dropped another
C3_Witness ==
  /\ pc = "done"
  /\ Len(fs_out) >= 2
  /\ fs_out[1] # fs_out[2]
  /\ Len(fs_out) < Len(lines)

(* ------------------------------------------------------------------- C4 *)
\* The divider rule of the running variant
DividerLine(l) ==
  IF variant = "better" THEN DividerBetter(Strip(l)) ELSE DividerComments(Strip(l))

\* The noise-marker rule (simplify_comments.py only)
NoiseLine(l) == variant = "comments" /\ NoiseMatch(Strip(l))

\* The line holds a // comment whose body begins with an action-verb marker
HasInlineMarker(l) ==
  \E p \in 1..Len(l) :
    /\ StartsWithAt(l, Slashes, p)
    /\ \E m \in 1..Len(InlineMarkers) :
          StartsWithAt(l, InlineMarkers[m], SkipSpace(l, p + 2))

MatchesNoRule(l) ==
  ~DocOpener(l) /\ ~CloserLine(l) /\ ~DividerLine(l) /\ ~NoiseLine(l)

\* C4 as stated: at every position, a line that does not itself match the
\* doc-comment rule (opener / closer), the divider rule or a noise-marker
\* rule is in the output byte-for-byte, in both variants.
C4_Original ==
  \A j \in 1..i : MatchesNoRule(lines[j]) => EmittedUnchanged(j)

\* C4 amended: such a line passes through byte-for-byte when it is reached
\* outside any comment block, is not the blank line directly after a closer
\* and, in simplify_comments.py, holds no // comment that begins with an
\* action-verb marker.
C4_Amended ==
  \A j \in 1..i :
    ( /\ MatchesNoRule(lines[j])
      /\ ~InsideAt(j)
      /\ ~(BlankLine(lines[j]) /\ j > 1 /\ ClosesAt(j - 1))
      /\ ~(variant = "comments" /\ HasInlineMarker(lines[j])) )
    => EmittedUnchanged(j)

\* simplify_comments.py has finished a file whose only line outside the block
\* and outside every rule came through as it was
C4_Witness ==
  /\ pc = "done"
  /\ variant = "comments"
  /\ lines = <<LnOpen, LnClose, LnEmpty, LnIndented>>
  /\ fs_out = <<LnIndented>>

(* ------------------------------------------------------------------- C5 *)
\* No doc-comment, no divider comment and no noise marker anywhere in ls
NoNoiseMarker(l) == \A m \in 1..Len(NoiseMarkers) : ~Contains(l, NoiseMarkers[m])

AlreadySimple(ls) ==
  \A k \in 1..Len(ls) :
    /\ ~DocOpener(ls[k])
    /\ ~DividerBetter(Strip(ls[k]))
    /\ ~DividerComments(Strip(ls[k]))
    /\ NoNoiseMarker(ls[k])

\* C5: for an input without doc-comments, dividers and noise markers, the
\* stripper applied to its own output returns that output, in both variants.
C5_Idempotent ==
  (pc = "done" /\ AlreadySimple(lines)) => StripLines(variant, fs_out) = fs_out

(* ------------------------------------------------------------------- C6 *)
PlainOpen == <<"/", "*">>

\* A line that starts a plain block comment: /* but not /**
PlainOpener(l) == StartsWith(Strip(l), PlainOpen) /\ ~DocOpener(l)

\* C6: in simplify_better.py a line starting with /* (not /**) reached outside
\* a comment puts the scanner in the inside-block-comment state, and no line
\* from it through the next line containing */ is in the output.
C6_PlainBlockStripped ==
  variant = "better" =>
    \A a \in 1..i :
      (PlainOpener(lines[a]) /\ ~InsideAt(a)) =>
        /\ (i = a => in_block_comment)
        /\ \A j \in 1..i : NextCloser(a, j) => \A m \in a..j : ~Emitted(m)

(* ------------------------------------------------------------------- C7 *)
\* The trimmed line is //, optional spaces, a run of 3 or more =, a label
\* (possibly empty) and a second run of 3 or more = that ends the line
TwoRunDivider(l) ==
  LET s == Strip(l)
      a == SkipSpace(s, 3)
      n == Len(s)
  IN  /\ StartsWith(s, Slashes)
      /\ \E b \in a..n : \E c \in b..n :
            /\ b - a >= 3 /\ n - c + 1 >= 3
            /\ \A k \in a..(b - 1) : s[k] = "="
            /\ \A k \in c..n : s[k] = "="

SlashComment(l) == StartsWith(Strip(l), Slashes)

NoTripleEq(l) == ~Contains(l, <<"=", "=", "=">>)

C7_DividerDropped ==
  \A j \in 1..i : (~InsideAt(j) /\ TwoRunDivider(lines[j])) => ~Emitted(j)

\* C7 as stated: outside a comment block a two-run divider line is dropped, and
\* a // comment line with no run of three = is emitted unchanged, in both
\* variants.
C7_Original ==
  /\ C7_DividerDropped
  /\ \A j \in 1..i :
       (~InsideAt(j) /\ SlashComment(lines[j]) /\ NoTripleEq(lines[j]))
         => EmittedUnchanged(j)

\* C7 amended: the // comment line with no run of three = is emitted
\* unchanged by simplify_better.py, and by simplify_comments.py unless it
\* matches the noise-marker rule or holds an action-verb marker.
C7_Amended ==
  /\ C7_DividerDropped
  /\ \A j \in 1..i :
       ( /\ ~InsideAt(j) /\ SlashComment(lines[j]) /\ NoTripleEq(lines[j])
         /\ ~NoiseLine(lines[j])
         /\ ~(variant = "comments" /\ HasInlineMarker(lines[j])) )
         => EmittedUnchanged(j)

\* The divider was dropped and the single-= comment kept
C7_Witness ==
  /\ pc = "done"
  /\ lines = <<LnDivider, LnNotDivider>>
  /\ fs_out = <<LnNotDivider>>

(* ------------------------------------------------------------------- C8 *)
\* p is where the first // of the line starts
FirstSlashes(l, p) ==
  /\ StartsWithAt(l, Slashes, p)
  /\ \A q \in 1..(p - 1) : ~StartsWithAt(l, Slashes, q)

\* The comment that starts at p begins with an action-verb marker
VerbAt(l, p) ==
  \E m \in 1..Len(InlineMarkers) :
    StartsWithAt(l, InlineMarkers[m], SkipSpace(l, p + 2))

\* C8: in simplify_comments.py a surviving line of code followed by a //
\* comment that begins with an action-verb marker is emitted as the code
\* before the comment (trailing spaces aside), everything from the marker to
\* the end of the line removed; a line whose trailing comment begins with
\* another word is emitted unchanged.
C8_InlineToEndOfLine ==
  variant = "comments" =>
    \A k \in 1..Len(kept) : \A p \in 2..Len(lines[kept[k]]) :
      (k <= Len(result) /\ FirstSlashes(lines[kept[k]], p)) =>
        IF VerbAt(lines[kept[k]], p)
        THEN RStrip(result[k]) = RStrip(SubSeq(lines[kept[k]], 1, p - 1))
        ELSE result[k] = lines[kept[k]]

(* ------------------------------------------------------------------- C9 *)
\* The trimmed line is //, optional spaces, then a noise marker
NoiseComment(l) ==
  LET s == Strip(l)
  IN  /\ StartsWith(s, Slashes)
      /\ \E m \in 1..Len(NoiseMarkers) :
            StartsWithAt(s, NoiseMarkers[m], SkipSpace(s, 3))

\* C9: in simplify_comments.py, outside a comment block, a // comment whose
\* body begins with a noise marker is dropped whole, with or without a space
\* after //, and a // comment that begins with another word is kept.
C9_NoiseDropped ==
  variant = "comments" =>
    \A j \in 1..i :
      (~InsideAt(j) /\ SlashComment(lines[j])) =>
        IF NoiseComment(lines[j]) THEN ~Emitted(j)
        ELSE (~DividerLine(lines[j]) => Emitted(j))

(* ------------------------------------------------------------------ C10 *)
\* C10: with a number of positional arguments other than two the script
\* prints the usage message and exits with status 1, and no file is ever
\* opened, read or written; with exactly two it calls the filter once.
C10_UsageError ==
  /\ nargs # 2 =>
       /\ ops = <<>> /\ ~out_written /\ calls = 0 /\ lines = <<>>
       /\ pc \in {"main", "exited"}
       /\ pc = "exited" => (exit_code = 1 /\ stdout = <<"usage">>)
  /\ nargs = 2 =>
       /\ pc # "exited" /\ "usage" \notin Range(stdout)
       /\ calls = (IF pc = "main" THEN 0 ELSE 1)
       /\ Len(SelectSeq(ops, LAMBDA o : o \in {"open_r", "open_r_failed"})) <= 1

\* The script has been run with three arguments and has exited on the usage
\* message
C10_Witness ==
  /\ nargs = 3
  /\ pc = "exited"
  /\ exit_code = 1
  /\ stdout = <<"usage">>

(* ------------------------------------------------------------------ C11 *)
\* Something follows the */ of the line
CodeAfterClose(l) ==
  \E p \in 1..Len(l) :
    StartsWithAt(l, BlockClose, p) /\ LStrip(SubSeq(l, p + 2, Len(l))) # <<>>

\* C11: in both variants a closer line reached inside a comment block is
\* dropped whole, also when code follows */ on the line: no output line comes
\* from it, and right after it the scanner is outside the comment with
\* skip_next_blank set.
C11_CloserDroppedWhole ==
  \A j \in 1..i :
    ClosesAt(j) =>
      /\ ~Emitted(j)
      /\ i = j => ( /\ ~in_javadoc /\ ~in_block_comment /\ skip_next_blank
                    /\ result = RunTo(variant, lines, j - 1).res )

\* The scanner has just consumed '*/ code' inside a block
C11_Witness ==
  /\ pc = "loop"
  /\ i = 2
  /\ lines[1] = LnOpen
  /\ lines[2] = LnCloseCode
  /\ CodeAfterClose(lines[2])
  /\ skip_next_blank /\ ~in_javadoc /\ result = <<>>

(* ------------------------------------------------------------------ C12 *)
\* No line before j both starts with /** and contains */
NoOpenCloseBefore(j) ==
  \A m \in 1..(j - 1) : ~(DocOpener(lines[m]) /\ CloserLine(lines[m]))

\* C12: the opener rule applies only outside a block comment: a line reached
\* inside one that starts with /** and contains */ is taken by the close rule,
\* so the scanner leaves the comment state, sets skip_next_blank, and the
\* code line after it is emitted.
C12_OpenerGuarded ==
  \A j \in 1..i :
    (InsideAt(j) /\ NoOpenCloseBefore(j)
       /\ DocOpener(lines[j]) /\ CloserLine(lines[j])) =>
      /\ i = j => (~in_javadoc /\ skip_next_blank)
      /\ (j + 1 <= i /\ OrdinaryCode(lines[j + 1])) => EmittedUnchanged(j + 1)

(* ------------------------------------------------------------------ C13 *)
\* The trimmed line is //, optional spaces and a run of 3 or more =, and it
\* is not a two-run divider: the run is the only one, or shorter than 6
OneRunOnly(l) ==
  LET s == Strip(l)
      a == SkipSpace(s, 3)
  IN  /\ StartsWith(s, Slashes)
      /\ a + 2 <= Len(s)
      /\ \A k \in a..(a + 2) : s[k] = "="
      /\ ~TwoRunDivider(l)

\* C13: in both variants a // comment line with only one run of 3 or more =
\* is not a divider: reached outside a comment block it is emitted.
C13_Original ==
  \A j \in 1..i : (~InsideAt(j) /\ OneRunOnly(lines[j])) => EmittedUnchanged(j)

\* C13 amended: simplify_better.py requires the two runs and emits the
\* one-run line; simplify_comments.py requires only the leading run and drops
\* the one-run line, as it drops the two-run divider.
C13_Amended ==
  \A j \in 1..i :
    ~InsideAt(j) =>
      /\ OneRunOnly(lines[j]) =>
           IF variant = "better" THEN EmittedUnchanged(j) ELSE ~Emitted(j)
      /\ TwoRunDivider(lines[j]) => ~Emitted(j)

\* simplify_better.py has kept '// === label' and '// ====='
C13_Witness ==
  /\ pc = "done"
  /\ variant = "better"
  /\ lines = <<LnRunLabel, LnOneRun>>
  /\ fs_out = lines

(* ------------------------------------------------------------------ C14 *)
\* C14: once an opener line is consumed the scanner is inside the comment,
\* whatever else the line holds (a */ included), and no line is emitted until
\* a later line containing */ has been consumed; without such a line nothing
\* from the opener to the end of the input is in the output.
C14_OpenerEntersBlock ==
  \A j \in 1..i :
    DocOpener(lines[j]) =>
      /\ i = j => in_javadoc
      /\ \A m \in j..i :
           (\A q \in (j + 1)..m : ~CloserLine(lines[q])) => ~Emitted(m)
      /\ \A m \in (j + 1)..i :
           (CloserLine(lines[m]) /\ \A q \in (j + 1)..(m - 1) : ~CloserLine(lines[q]))
             => ~Emitted(m)

\* A one-line /** x */ has swallowed the code after it
C14_Witness ==
  /\ pc = "done"
  /\ lines = <<LnCode, LnOpenClose, LnCode, LnEmpty>>
  /\ fs_out = <<LnCode>>

(* ------------------------------------------------------------------ C15 *)
\* C15: whenever skip_next_blank is set and the scanner is outside a comment,
\* the line just consumed was a closer; so a blank line outside a comment is
\* dropped only directly after a closer, and the blank line of closer,
\* divider, blank is emitted.
C15_SkipOnlyAfterCloser ==
  /\ (skip_next_blank /\ ~in_javadoc /\ ~in_block_comment)
       => (i >= 1 /\ ClosesAt(i))
  /\ \A j \in 1..i :
       (BlankLine(lines[j]) /\ ~InsideAt(j) /\ ~Emitted(j))
         => (j > 1 /\ ClosesAt(j - 1))
  /\ \A j \in 3..i :
       (ClosesAt(j - 2) /\ TwoRunDivider(lines[j - 1]) /\ BlankLine(lines[j]))
         => (~Emitted(j - 1) /\ EmittedUnchanged(j))

\* Closer, divider, blank: the blank line is the output
C15_Witness ==
  /\ pc = "done"
  /\ lines = <<LnOpen, LnCloseCode, LnDivider, LnEmpty>>
  /\ fs_out = <<LnEmpty>>

(* ------------------------------------------------------------------ C16 *)
\* C16: simplify_better.py is idempotent on every input: its output has no
\* line starting with /** and no divider line, and a second pass over the
\* output never enters the comment state, never sets skip_next_blank and
\* emits every line.
C16_BetterIdempotent ==
  (pc = "done" /\ variant = "better") =>
    /\ \A k \in 1..Len(fs_out) : ~DocOpener(fs_out[k]) /\ ~TwoRunDivider(fs_out[k])
    /\ \A k \in 0..Len(fs_out) :
         LET r == RunTo("better", fs_out, k)
         IN  /\ ~r.st.in_javadoc /\ ~r.st.in_block_comment
             /\ ~r.st.skip_next_blank
             /\ r.res = SubSeq(fs_out, 1, k)
    /\ StripLines("better", fs_out) = fs_out

\* simplify_better.py has stripped a block and a divider and kept the
\* one-run line
C16_Witness ==
  /\ pc = "done"
  /\ variant = "better"
  /\ lines = <<LnOpen, LnCloseCode, LnDivider, LnOneRun>>
  /\ fs_out = <<LnOneRun>>

(* ------------------------------------------------------------------ C17 *)
Other(v) == IF v = "better" THEN "comments" ELSE "better"

\* The line holds a // comment that begins with a noise marker
HasNoiseMarker(l) ==
  \E p \in 1..Len(l) :
    /\ StartsWithAt(l, Slashes, p)
    /\ \E m \in 1..Len(NoiseMarkers) :
          StartsWithAt(l, NoiseMarkers[m], SkipSpace(l, p + 2))

NoMarkers(ls) ==
  \A k \in 1..Len(ls) : ~HasNoiseMarker(ls[k]) /\ ~HasInlineMarker(ls[k])

\* The running script is, after i lines, where the other script is after the
\* same i lines: same in_javadoc, same skip_next_blank, same result
SameAsOther ==
  LET o == RunTo(Other(variant), lines, i)
  IN  /\ in_javadoc = o.st.in_javadoc
      /\ skip_next_blank = o.st.skip_next_blank
      /\ result = o.res

\* C17 as stated: on every input in which no line holds a // comment beginning
\* with a noise marker or an action-verb marker, the two scripts pass through
\* the same (inside-comment, skip-next-blank) states line by line and give the
\* same output.
C17_Original == NoMarkers(lines) => SameAsOther

\* C17 amended: the same, for inputs that also hold no // line with a single
\* run of 3 or more = (which only simplify_comments.py takes for a divider).
C17_Amended ==
  ((\A k \in 1..Len(lines) : ~OneRunOnly(lines[k])) /\ NoMarkers(lines))
    => SameAsOther

\* A file with a block, code and a two-run divider has been filtered, and the
\* other script gives the same output
C17_Witness ==
  /\ pc = "done"
  /\ lines = <<LnOpen, LnCloseCode, LnCode, LnDivider>>
  /\ fs_out = <<LnCode>>
  /\ StripLines(Other(variant), lines) = fs_out

(* ------------------------------------------------------------------ C18 *)
\* C18: the output file is opened for writing only after the whole input has
\* been read and filtered; when the input cannot be opened the run fails with
\* the output untouched and no success message; the success message is
\* printed only after the write.
C18_WriteAfterScan ==
  /\ "open_w" \in Range(ops) =>
       /\ ops = <<"open_r", "open_w">>
       /\ lines = fs_in /\ i = Len(lines)
       /\ result = RunTo(variant, fs_in, Len(fs_in)).res
  /\ out_written <=> "open_w" \in Range(ops)
  /\ ~out_written => fs_out = <<>>
  /\ "open_r_failed" \in Range(ops) =>
       /\ ops = <<"open_r_failed">>
       /\ pc = "crashed" /\ exit_code = 1
       /\ ~out_written /\ fs_out = <<>> /\ stdout = <<>>
  /\ "simplified" \in Range(stdout) => (out_written /\ fs_out = result)

\* The input could not be opened: the process has crashed, nothing written
C18_Witness ==
  /\ pc = "crashed"
  /\ ops = <<"open_r_failed">>
  /\ fs_in # <<>>
  /\ ~out_written /\ stdout = <<>>

====
